---------------------------- MODULE Spec2Model ----------------------------
(***************************************************************************)
(* A model of nova/api/openstack/common.py (the status mapping, the        *)
(* pagination helpers, the href helpers, the metadata quota check, the     *)
(* network view and the metadata XML serializers), of the addresses        *)
(* controllers of nova/api/openstack/ips.py and of the admin actions of    *)
(* nova/api/openstack/contrib/admin_actions.py.  Every function is an      *)
(* operator, computed the way the Python code computes it; one action per  *)
(* function applies it to inputs drawn from bounded sets and records the   *)
(* call and what it returned or raised.                                    *)
(*                                                                         *)
(* Text (query-string values, status strings, hrefs) is a sequence of      *)
(* one-character strings, so that int(), lower(), urlsplit() and the       *)
(* regular expressions work on characters as the code's do.                *)
(***************************************************************************)
EXTENDS Integers, Sequences, FiniteSets, TLC

VARIABLES
    dictOrder,  \* the order in which _STATE_MAP.iteritems() yields its keys
    FLAGS,      \* the process-wide flags: osapi_max_limit, use_ipv6
    defaults,   \* the default argument values bound when the module was loaded
    client,     \* a client paging through a collection (<<>> when there is none)
    op,         \* the function whose call is being answered ("idle" between calls)
    args,       \* its arguments
    result      \* what it returned ("ok"/"None") or raised

vars == <<dictOrder, FLAGS, defaults, client, op, args, result>>

(***************************************************************************)
(* Generic helpers: Python's dict.get, slices, min.                        *)
(***************************************************************************)
Min(a, b) == IF a <= b THEN a ELSE b

Max(a, b) == IF a >= b THEN a ELSE b

\* d.get(k, dflt)
DictGet(d, k, dflt) == IF k \in DOMAIN d THEN d[k] ELSE dflt

\* A Python slice index clamped into 0..n (a negative index counts from the end).
SliceIndex(i, n) == IF i < 0 THEN Max(n + i, 0) ELSE Min(i, n)

\* items[a:b]
PySlice(items, a, b) ==
    LET n  == Len(items)
        lo == SliceIndex(a, n)
        hi == SliceIndex(b, n)
    IN  IF hi <= lo THEN <<>> ELSE SubSeq(items, lo + 1, hi)

Ok(v) == [kind |-> "ok", value |-> v]

Raise(exc, msg) == [kind |-> exc, value |-> msg]

(***************************************************************************)
(* Characters.                                                             *)
(***************************************************************************)
DigitChars == <<"0", "1", "2", "3", "4", "5", "6", "7", "8", "9">>

UpperChars == <<"A", "B", "C", "D", "E", "F", "G", "H", "I", "J", "K", "L", "M",
                "N", "O", "P", "Q", "R", "S", "T", "U", "V", "W", "X", "Y", "Z">>

LowerChars == <<"a", "b", "c", "d", "e", "f", "g", "h", "i", "j", "k", "l", "m",
                "n", "o", "p", "q", "r", "s", "t", "u", "v", "w", "x", "y", "z">>

Range(f) == {f[i] : i \in DOMAIN f}

IsDigit(c) == c \in Range(DigitChars)

DigitValue(c) == (CHOOSE i \in DOMAIN DigitChars : DigitChars[i] = c) - 1

\* str.lower(), one character
LowerChar(c) ==
    IF c \in Range(UpperChars)
    THEN LowerChars[CHOOSE i \in DOMAIN UpperChars : UpperChars[i] = c]
    ELSE c

\* str.lower()
Lower(s) == [i \in DOMAIN s |-> LowerChar(s[i])]

(***************************************************************************)
(* The status strings of _STATE_MAP.                                       *)
(***************************************************************************)
S_ACTIVE == <<"A", "C", "T", "I", "V", "E">>
S_REBOOT == <<"R", "E", "B", "O", "O", "T">>
S_PASSWORD == <<"P", "A", "S", "S", "W", "O", "R", "D">>
S_VERIFY_RESIZE == <<"V", "E", "R", "I", "F", "Y", "_", "R", "E", "S", "I", "Z", "E">>
S_BUILD == <<"B", "U", "I", "L", "D">>
S_REBUILD == <<"R", "E", "B", "U", "I", "L", "D">>
S_STOPPED == <<"S", "T", "O", "P", "P", "E", "D">>
S_MIGRATING == <<"M", "I", "G", "R", "A", "T", "I", "N", "G">>
S_RESIZE == <<"R", "E", "S", "I", "Z", "E">>
S_PAUSED == <<"P", "A", "U", "S", "E", "D">>
S_SUSPENDED == <<"S", "U", "S", "P", "E", "N", "D", "E", "D">>
S_RESCUE == <<"R", "E", "S", "C", "U", "E">>
S_ERROR == <<"E", "R", "R", "O", "R">>
S_DELETED == <<"D", "E", "L", "E", "T", "E", "D">>
S_UNKNOWN_STATE == <<"U", "N", "K", "N", "O", "W", "N", "_", "S", "T", "A", "T", "E">>

\* The keys of _STATE_MAP in the order the dict literal declares them; a
\* vm_states / task_states constant is written by its name.
DeclaredStates ==
    <<"ACTIVE", "BUILDING", "REBUILDING", "STOPPED", "MIGRATING", "RESIZING",
      "PAUSED", "SUSPENDED", "RESCUED", "ERROR", "DELETED", "SOFT_DELETE">>

STATE_MAP ==
    ("ACTIVE" :> ("default" :> S_ACTIVE
                  @@ "REBOOTING" :> S_REBOOT
                  @@ "UPDATING_PASSWORD" :> S_PASSWORD
                  @@ "RESIZE_VERIFY" :> S_VERIFY_RESIZE))
    @@ ("BUILDING" :> ("default" :> S_BUILD))
    @@ ("REBUILDING" :> ("default" :> S_REBUILD))
    @@ ("STOPPED" :> ("default" :> S_STOPPED))
    @@ ("MIGRATING" :> ("default" :> S_MIGRATING))
    @@ ("RESIZING" :> ("default" :> S_RESIZE))
    @@ ("PAUSED" :> ("default" :> S_PAUSED))
    @@ ("SUSPENDED" :> ("default" :> S_SUSPENDED))
    @@ ("RESCUED" :> ("default" :> S_RESCUE))
    @@ ("ERROR" :> ("default" :> S_ERROR))
    @@ ("DELETED" :> ("default" :> S_DELETED))
    @@ ("SOFT_DELETE" :> ("default" :> S_DELETED))

\* status_from_state with the fallback to the table's default left out
status_from_state_NoFallback(vm_state, task_state) ==
    LET task_map == DictGet(STATE_MAP, vm_state, "default" :> S_UNKNOWN_STATE)
    IN  DictGet(task_map, task_state, <<>>)

\* status_from_state ignoring the task
status_from_state_IgnoreTask(vm_state, task_state) ==
    LET task_map == DictGet(STATE_MAP, vm_state, "default" :> S_UNKNOWN_STATE)
    IN  task_map["default"]

status_from_state(vm_state, task_state) ==
    LET task_map == DictGet(STATE_MAP, vm_state, "default" :> S_UNKNOWN_STATE)
    IN  DictGet(task_map, task_state, task_map["default"])

\* the loop comparing the status with every status of the task map, not
\* with its default alone
RECURSIVE StateScan_AnyTaskStatus(_, _, _)
StateScan_AnyTaskStatus(status, order, i) ==
    IF i > Len(order) THEN [kind |-> "None", value |-> "None"]
    ELSE IF \E task \in DOMAIN STATE_MAP[order[i]] :
                Lower(status) = Lower(STATE_MAP[order[i]][task])
         THEN Ok(order[i])
         ELSE StateScan_AnyTaskStatus(status, order, i + 1)

\* The loop of vm_state_from_status over the keys as iteritems() yields
\* them, from position i on; "None" when the loop ends without a return.
RECURSIVE StateScan(_, _, _)
StateScan(status, order, i) ==
    IF i > Len(order) THEN [kind |-> "None", value |-> "None"]
    ELSE LET status_string == DictGet(STATE_MAP[order[i]], "default", <<>>)
         IN  IF Lower(status) = Lower(status_string)
             THEN Ok(order[i])
             ELSE StateScan(status, order, i + 1)

vm_state_from_status(status, order) == StateScan(status, order, 1)

(***************************************************************************)
(* int(text): surrounding whitespace is stripped, then an optional sign    *)
(* and at least one decimal digit; anything else raises ValueError.        *)
(***************************************************************************)
RECURSIVE LStrip(_)
LStrip(s) == IF s # <<>> /\ Head(s) = " " THEN LStrip(Tail(s)) ELSE s

RECURSIVE RStrip(_)
RStrip(s) ==
    IF s # <<>> /\ s[Len(s)] = " " THEN RStrip(SubSeq(s, 1, Len(s) - 1)) ELSE s

\* The value of a run of decimal digits, most significant first.
RECURSIVE DigitsValue(_, _)
DigitsValue(s, acc) ==
    IF s = <<>> THEN acc ELSE DigitsValue(Tail(s), 10 * acc + DigitValue(Head(s)))

AllDigits(s) == s # <<>> /\ \A i \in DOMAIN s : IsDigit(s[i])

ParseInt(text) ==
    LET t    == RStrip(LStrip(text))
        sign == IF t # <<>> /\ Head(t) \in {"+", "-"} THEN Head(t) ELSE ""
        body == IF sign = "" THEN t ELSE Tail(t)
    IN  IF AllDigits(body)
        THEN [ok |-> TRUE,
              val |-> IF sign = "-" THEN 0 - DigitsValue(body, 0)
                      ELSE DigitsValue(body, 0)]
        ELSE [ok |-> FALSE, val |-> 0]

(***************************************************************************)
(* get_pagination_params, limited, limited_by_marker.  request.GET is a    *)
(* function from the names of the parameters present to their text.        *)
(***************************************************************************)
EmptyDict == [x \in {} |-> 0]

DictPut(d, k, v) == [x \in DOMAIN d \cup {k} |-> IF x = k THEN v ELSE d[x]]

\* d.get(k), None being the empty tuple and a value v the tuple <<v>>
DictGetOpt(d, k) == IF k \in DOMAIN d THEN <<d[k]>> ELSE <<>>

\* Python's truth value of an optional integer: None and 0 are false.
Truthy(opt) == opt # <<>> /\ opt[1] # 0

PaginationParamNames == <<"marker", "limit">>

\* The loop of get_pagination_params from the i-th name on.
RECURSIVE ParamLoop(_, _, _)
ParamLoop(GET, i, params) ==
    IF i > Len(PaginationParamNames) THEN Ok(params)
    ELSE LET param == PaginationParamNames[i]
         IN  IF param \notin DOMAIN GET
             THEN ParamLoop(GET, i + 1, params)
             ELSE LET v == ParseInt(GET[param])
                  IN  IF ~v.ok
                      THEN Raise("HTTPBadRequest", <<param, "param must be an integer">>)
                      ELSE IF v.val < 0
                      THEN Raise("HTTPBadRequest", <<param, "param must be positive">>)
                      ELSE ParamLoop(GET, i + 1, DictPut(params, param, v.val))

\* get_pagination_params leaving a parameter out when it does not parse
\* or is negative, instead of raising
RECURSIVE ParamLoop_SkipInvalid(_, _, _)
ParamLoop_SkipInvalid(GET, i, params) ==
    IF i > Len(PaginationParamNames) THEN Ok(params)
    ELSE LET param == PaginationParamNames[i]
         IN  IF param \notin DOMAIN GET
             THEN ParamLoop_SkipInvalid(GET, i + 1, params)
             ELSE LET v == ParseInt(GET[param])
                  IN  IF ~v.ok \/ v.val < 0
                      THEN ParamLoop_SkipInvalid(GET, i + 1, params)
                      ELSE ParamLoop_SkipInvalid(GET, i + 1,
                                                 DictPut(params, param, v.val))

get_pagination_params_SkipInvalid(GET) == ParamLoop_SkipInvalid(GET, 1, EmptyDict)

get_pagination_params(GET) == ParamLoop(GET, 1, EmptyDict)

\* int(request.GET.get(name, dflt)) with an integer default
IntParam(GET, name, dflt) ==
    IF name \in DOMAIN GET THEN ParseInt(GET[name]) ELSE [ok |-> TRUE, val |-> dflt]

\* limited with line 165 reading limit = min(max_limit, limit)
limited_NoZeroDefault(items, GET, max_limit) ==
    LET offset == IntParam(GET, "offset", 0)
        limit  == IntParam(GET, "limit", max_limit)
    IN  IF ~offset.ok
        THEN Raise("HTTPBadRequest", <<"offset", "param must be an integer">>)
        ELSE IF ~limit.ok
        THEN Raise("HTTPBadRequest", <<"limit", "param must be an integer">>)
        ELSE IF limit.val < 0
        THEN Raise("HTTPBadRequest", <<"limit", "param must be positive">>)
        ELSE IF offset.val < 0
        THEN Raise("HTTPBadRequest", <<"offset", "param must be positive">>)
        ELSE LET lim == Min(max_limit, limit.val)
             IN  Ok(PySlice(items, offset.val, offset.val + lim))

\* limited with line 165 left out: the requested limit is not capped
limited_NoCap(items, GET, max_limit) ==
    LET offset == IntParam(GET, "offset", 0)
        limit  == IntParam(GET, "limit", max_limit)
    IN  IF ~offset.ok
        THEN Raise("HTTPBadRequest", <<"offset", "param must be an integer">>)
        ELSE IF ~limit.ok
        THEN Raise("HTTPBadRequest", <<"limit", "param must be an integer">>)
        ELSE IF limit.val < 0
        THEN Raise("HTTPBadRequest", <<"limit", "param must be positive">>)
        ELSE IF offset.val < 0
        THEN Raise("HTTPBadRequest", <<"offset", "param must be positive">>)
        ELSE Ok(PySlice(items, offset.val, offset.val + limit.val))

limited(items, GET, max_limit) ==
    LET offset == IntParam(GET, "offset", 0)
        limit  == IntParam(GET, "limit", max_limit)
    IN  IF ~offset.ok
        THEN Raise("HTTPBadRequest", <<"offset", "param must be an integer">>)
        ELSE IF ~limit.ok
        THEN Raise("HTTPBadRequest", <<"limit", "param must be an integer">>)
        ELSE IF limit.val < 0
        THEN Raise("HTTPBadRequest", <<"limit", "param must be positive">>)
        ELSE IF offset.val < 0
        THEN Raise("HTTPBadRequest", <<"offset", "param must be positive">>)
        ELSE LET lim == Min(max_limit, IF limit.val # 0 THEN limit.val ELSE max_limit)
             IN  Ok(PySlice(items, offset.val, offset.val + lim))

\* The scan of limited_by_marker for the marker: the index after the first
\* item whose id is the marker, -1 when there is none.
RECURSIVE MarkerScan(_, _, _)
MarkerScan(items, marker, i) ==
    IF i > Len(items) THEN -1
    ELSE IF items[i].id = marker THEN i
    ELSE MarkerScan(items, marker, i + 1)

\* start_index as lines 178-185 compute it from params.get('marker')
StartIndex(items, marker) ==
    IF Truthy(marker) THEN MarkerScan(items, marker[1], 1) ELSE 0

limited_by_marker(items, GET, max_limit) ==
    LET params == get_pagination_params(GET)
    IN  IF params.kind # "ok" THEN params
        ELSE LET limit       == Min(max_limit, DictGet(params.value, "limit", max_limit))
                 marker      == DictGetOpt(params.value, "marker")
                 start_index == StartIndex(items, marker)
             IN  IF start_index < 0
                 THEN Raise("HTTPBadRequest", <<"marker", "not found">>)
                 ELSE Ok(PySlice(items, start_index, start_index + limit))

(***************************************************************************)
(* urlparse.urlsplit and urlparse.urlunsplit (Python 2 standard library),  *)
(* as remove_version_from_href calls them.                                 *)
(***************************************************************************)
\* s.find(one of chars), from position from on: the first position, 0 if none
RECURSIVE FindAny(_, _, _)
FindAny(s, chars, from) ==
    IF from > Len(s) THEN 0
    ELSE IF s[from] \in chars THEN from
    ELSE FindAny(s, chars, from + 1)

\* s[i:] with i counted from 1
From(s, i) == IF i > Len(s) THEN <<>> ELSE SubSeq(s, i, Len(s))

SchemeChars == Range(LowerChars) \cup Range(UpperChars) \cup Range(DigitChars)
               \cup {"+", "-", "."}

UsesNetloc == {<<"h", "t", "t", "p">>, <<"h", "t", "t", "p", "s">>, <<"f", "t", "p">>}

urlsplit(url) ==
    LET colon     == FindAny(url, {":"}, 1)
        hasScheme == colon > 1 /\ \A i \in 1..(colon - 1) : url[i] \in SchemeChars
        scheme    == IF hasScheme THEN Lower(SubSeq(url, 1, colon - 1)) ELSE <<>>
        rest1     == IF hasScheme THEN From(url, colon + 1) ELSE url
        hasNetloc == Len(rest1) >= 2 /\ SubSeq(rest1, 1, 2) = <<"/", "/">>
        delim     == IF hasNetloc THEN FindAny(rest1, {"/", "?", "#"}, 3) ELSE 0
        netlocEnd == IF delim = 0 THEN Len(rest1) + 1 ELSE delim
        netloc    == IF hasNetloc THEN SubSeq(rest1, 3, netlocEnd - 1) ELSE <<>>
        rest2     == IF hasNetloc THEN From(rest1, netlocEnd) ELSE rest1
        hash      == FindAny(rest2, {"#"}, 1)
        fragment  == IF hash > 0 THEN From(rest2, hash + 1) ELSE <<>>
        rest3     == IF hash > 0 THEN SubSeq(rest2, 1, hash - 1) ELSE rest2
        qmark     == FindAny(rest3, {"?"}, 1)
        query     == IF qmark > 0 THEN From(rest3, qmark + 1) ELSE <<>>
        path      == IF qmark > 0 THEN SubSeq(rest3, 1, qmark - 1) ELSE rest3
    IN  [scheme |-> scheme, netloc |-> netloc, path |-> path,
         query |-> query, fragment |-> fragment]

urlunsplit(u) ==
    LET slashed == IF u.path # <<>> /\ Head(u.path) # "/" THEN <<"/">> \o u.path
                   ELSE u.path
        url1 == IF u.netloc # <<>>
                   \/ (u.scheme \in UsesNetloc
                       /\ ~(Len(u.path) >= 2 /\ SubSeq(u.path, 1, 2) = <<"/", "/">>))
                THEN <<"/", "/">> \o u.netloc \o slashed
                ELSE u.path
        url2 == IF u.scheme # <<>> THEN u.scheme \o <<":">> \o url1 ELSE url1
        url3 == IF u.query # <<>> THEN url2 \o <<"?">> \o u.query ELSE url2
    IN  IF u.fragment # <<>> THEN url3 \o <<"#">> \o u.fragment ELSE url3

(***************************************************************************)
(* remove_version_from_href.                                               *)
(***************************************************************************)
\* The position after the run of digits of s that starts at position i
\* (i itself when s[i] is no digit): what [0-9]+ consumes, greedily.
RECURSIVE DigitsEnd(_, _)
DigitsEnd(s, i) == IF i <= Len(s) /\ IsDigit(s[i]) THEN DigitsEnd(s, i + 1) ELSE i

\* '$' at position i: the end of the text, or just before a final newline
AtDollar(s, i) == i > Len(s) \/ (i = Len(s) /\ s[i] = "\n")

\* /v[0-9]+\.[0-9]+(/|$) matched at position p of s: the position after the
\* digits (where group 1 starts), 0 when there is no match there.
VersionMatchAt(s, p) ==
    IF ~(p + 1 <= Len(s) /\ s[p] = "/" /\ s[p + 1] = "v") THEN 0
    ELSE LET a == DigitsEnd(s, p + 2)
         IN  IF a = p + 2 \/ a > Len(s) \/ s[a] # "." THEN 0
             ELSE LET b == DigitsEnd(s, a + 1)
                  IN  IF b = a + 1 THEN 0
                      ELSE IF (b <= Len(s) /\ s[b] = "/") \/ AtDollar(s, b) THEN b
                      ELSE 0

\* The first position from p on where the pattern matches, 0 if none.
RECURSIVE VersionSearch(_, _)
VersionSearch(s, p) ==
    IF p > Len(s) THEN 0
    ELSE IF VersionMatchAt(s, p) > 0 THEN p
    ELSE VersionSearch(s, p + 1)

\* re.sub of the pattern without its '^' anchor: the first match anywhere
VersionSub_Unanchored(path) ==
    LET p == VersionSearch(path, 1)
    IN  IF p = 0 THEN path
        ELSE SubSeq(path, 1, p - 1) \o From(path, VersionMatchAt(path, p))

\* re.sub(r'^/v[0-9]+\.[0-9]+(/|$)', r'\1', path, count=1)
VersionSub(path) ==
    LET e == VersionMatchAt(path, 1)
    IN  IF e = 0 THEN path ELSE From(path, e)

remove_version_from_href(href) ==
    LET parsed_url == urlsplit(href)
        new_path   == VersionSub(parsed_url.path)
    IN  IF new_path = parsed_url.path
        THEN Raise("ValueError", <<"href does not contain version">>)
        ELSE Ok(urlunsplit([parsed_url EXCEPT !.path = new_path]))

(***************************************************************************)
(* get_version_from_href and get_id_from_href.                             *)
(***************************************************************************)
\* [/][v][0-9]+\.[0-9]+ matched at position p of s: the position after the
\* second run of digits, 0 when there is no match there.
VersionRunAt(s, p) ==
    IF ~(p + 1 <= Len(s) /\ s[p] = "/" /\ s[p + 1] = "v") THEN 0
    ELSE LET a == DigitsEnd(s, p + 2)
         IN  IF a = p + 2 \/ a > Len(s) \/ s[a] # "." THEN 0
             ELSE LET b == DigitsEnd(s, a + 1)
                  IN  IF b = a + 1 THEN 0 ELSE b

\* re.findall(r'[/][v][0-9]+\.[0-9]+[/]', s)[0] searched from position p on:
\* the text of the first match, <<>> when there is none.
RECURSIVE FindVersionSlash(_, _)
FindVersionSlash(s, p) ==
    IF p > Len(s) THEN <<>>
    ELSE LET b == VersionRunAt(s, p)
         IN  IF b > 0 /\ b <= Len(s) /\ s[b] = "/" THEN SubSeq(s, p, b)
             ELSE FindVersionSlash(s, p + 1)

\* re.findall(r'[/][v][0-9]+\.[0-9]+$', s)[0] searched from position p on.
RECURSIVE FindVersionAtEnd(_, _)
FindVersionAtEnd(s, p) ==
    IF p > Len(s) THEN <<>>
    ELSE LET b == VersionRunAt(s, p)
         IN  IF b > 0 /\ AtDollar(s, b) THEN SubSeq(s, p, b - 1)
             ELSE FindVersionAtEnd(s, p + 1)

\* The text lines 244-247 leave in version[0]; <<>> for an empty list.
MatchedVersionText(href) ==
    LET version == FindVersionSlash(href, 1)
    IN  IF version # <<>> THEN version ELSE FindVersionAtEnd(href, 1)

\* re.findall(r'[0-9]+\.[0-9]', s)[0] searched from position p on: a run of
\* digits, a dot and ONE digit; <<>> when there is none.
RECURSIVE FindNumber(_, _)
FindNumber(s, p) ==
    IF p > Len(s) THEN <<>>
    ELSE LET a == DigitsEnd(s, p)
         IN  IF a > p /\ a + 1 <= Len(s) /\ s[a] = "." /\ IsDigit(s[a + 1])
             THEN SubSeq(s, p, a + 1)
             ELSE FindNumber(s, p + 1)

V_1_0 == <<"1", ".", "0">>

get_version_from_href(href) ==
    LET version == MatchedVersionText(href)
    IN  IF version = <<>> THEN Ok(V_1_0)
        ELSE Ok(FindNumber(version, 1))

\* s.split('/')[-1]: the text after the last '/'
RECURSIVE LastPiece(_)
LastPiece(s) ==
    IF s = <<>> \/ s[Len(s)] = "/" THEN <<>>
    ELSE LastPiece(SubSeq(s, 1, Len(s) - 1)) \o <<s[Len(s)]>>

get_id_from_href(href) == Ok(LastPiece(urlsplit(href).path))

(***************************************************************************)
(* get_networks_for_instance.  A dict read from the network API is a       *)
(* record of the keys it has (keys) and the values under them; a value is  *)
(* meant only when its key is present.  The value under 'ips' is a list    *)
(* (items) or None (isNone).  The floating addresses of the network API    *)
(* are a function from a fixed address to the list of its floating ones.   *)
(***************************************************************************)
\* _emit_addr
_emit_addr(ip, version) == [addr |-> ip, version |-> version]

\* _get_floats
_get_floats(floats, ip) == DictGet(floats, ip, <<>>)

\* [_emit_addr(ip['ip'], version) for ip in ips]
EmitAll(ips, version) == [i \in 1..Len(ips) |-> _emit_addr(ips[i].ip, version)]

\* network['floating_ips'] after the loop over ips: the floating addresses of
\* each fixed address, in the order of the fixed addresses
RECURSIVE FloatsOfAll(_, _)
FloatsOfAll(floats, ips) ==
    IF ips = <<>> THEN <<>>
    ELSE EmitAll([i \in 1..Len(_get_floats(floats, Head(ips).ip)) |->
                     [ip |-> _get_floats(floats, Head(ips).ip)[i]]], 4)
         \o FloatsOfAll(floats, Tail(ips))

\* the guard with the FLAGS.use_ipv6 test left out
WantsIp6s_IgnoreFlag(info, use_ipv6) == "ip6s" \in info.keys

\* FLAGS.use_ipv6 and 'ip6s' in info
WantsIp6s(info, use_ipv6) == use_ipv6 /\ "ip6s" \in info.keys

\* some dict of the list has no key 'ip'
LacksIp(ips) == \E i \in 1..Len(ips) : "ip" \notin ips[i].keys

\* The try block of one pass of the loop: the network built from info, or
\* the exception it re-raises.
BuildNetwork(info, use_ipv6, floats) ==
    IF "ips" \notin info.keys THEN Raise("KeyError", <<"ips">>)
    ELSE IF info.ips.isNone THEN Raise("TypeError", <<"not iterable">>)
    ELSE IF LacksIp(info.ips.items) THEN Raise("KeyError", <<"ip">>)
    ELSE IF WantsIp6s(info, use_ipv6) /\ LacksIp(info.ip6s)
         THEN Raise("KeyError", <<"ip">>)
    ELSE Ok([ips |-> EmitAll(info.ips.items, 4)
                     \o (IF WantsIp6s(info, use_ipv6)
                         THEN EmitAll(info.ip6s, 6) ELSE <<>>),
             floating_ips |-> FloatsOfAll(floats, info.ips.items)])

\* the loop with the two except clauses doing `continue` instead of `raise`
RECURSIVE NetworksLoop_SkipMalformed(_, _, _, _)
NetworksLoop_SkipMalformed(nw_info, use_ipv6, floats, networks) ==
    IF nw_info = <<>> THEN Ok(networks)
    ELSE LET info    == Head(nw_info)
             network == BuildNetwork(info, use_ipv6, floats)
         IN  IF info.keys = {} \/ network.kind # "ok"
             THEN NetworksLoop_SkipMalformed(Tail(nw_info), use_ipv6, floats, networks)
             ELSE IF "label" \notin info.keys THEN Raise("KeyError", <<"label">>)
             ELSE NetworksLoop_SkipMalformed(Tail(nw_info), use_ipv6, floats,
                      DictPut(networks, info.label, network.value))

\* the loop keeping the entry a label already has (networks.setdefault)
RECURSIVE NetworksLoop_FirstLabelWins(_, _, _, _)
NetworksLoop_FirstLabelWins(nw_info, use_ipv6, floats, networks) ==
    IF nw_info = <<>> THEN Ok(networks)
    ELSE LET info    == Head(nw_info)
             network == BuildNetwork(info, use_ipv6, floats)
         IN  IF info.keys = {}
             THEN NetworksLoop_FirstLabelWins(Tail(nw_info), use_ipv6, floats, networks)
             ELSE IF network.kind # "ok" THEN network
             ELSE IF "label" \notin info.keys THEN Raise("KeyError", <<"label">>)
             ELSE NetworksLoop_FirstLabelWins(Tail(nw_info), use_ipv6, floats,
                      IF info.label \in DOMAIN networks THEN networks
                      ELSE DictPut(networks, info.label, network.value))

\* for net, info in nw_info: ... from the head of nw_info on
RECURSIVE NetworksLoop(_, _, _, _)
NetworksLoop(nw_info, use_ipv6, floats, networks) ==
    IF nw_info = <<>> THEN Ok(networks)
    ELSE LET info    == Head(nw_info)
             network == BuildNetwork(info, use_ipv6, floats)
         IN  IF info.keys = {}
             THEN NetworksLoop(Tail(nw_info), use_ipv6, floats, networks)
             ELSE IF network.kind # "ok" THEN network
             ELSE IF "label" \notin info.keys THEN Raise("KeyError", <<"label">>)
             ELSE NetworksLoop(Tail(nw_info), use_ipv6, floats,
                               DictPut(networks, info.label, network.value))

get_networks_for_instance(nw_info, use_ipv6, floats) ==
    NetworksLoop(nw_info, use_ipv6, floats, EmptyDict)

(***************************************************************************)
(* The addresses controllers of ips.py.  The view builders are             *)
(* nova.api.openstack.views.addresses: the earlier version has a public    *)
(* and a private view selected by network label, the later version looks   *)
(* one network up by its label and answers None (<<>>) when it is absent.  *)
(***************************************************************************)
HTTPNotFound(msg) == Raise("HTTPNotFound", <<msg>>)

\* Controller._get_instance: compute_api.get finds the instance or not
_get_instance(instance_exists) ==
    IF instance_exists THEN Ok(<<"instance">>)
    ELSE HTTPNotFound("Instance does not exist")

\* ViewBuilderV10.build_private_parts / build_public_parts
build_parts(networks, label) ==
    IF label \in DOMAIN networks THEN networks[label].ips ELSE <<>>

\* ViewBuilderV11.build_network
build_network(networks, id) ==
    IF id \in DOMAIN networks THEN <<networks[id]>> ELSE <<>>

\* ControllerV10.show answering every id
ControllerV10_show_AnyId(instance_exists, nw_info, use_ipv6, floats, id) ==
    LET instance == _get_instance(instance_exists)
        networks == get_networks_for_instance(nw_info, use_ipv6, floats)
    IN  IF instance.kind # "ok" THEN instance
        ELSE IF networks.kind # "ok" THEN networks
        ELSE Ok([x \in {id} |-> build_parts(networks.value, id)])

ControllerV10_show(instance_exists, nw_info, use_ipv6, floats, id) ==
    LET instance == _get_instance(instance_exists)
        networks == get_networks_for_instance(nw_info, use_ipv6, floats)
    IN  IF instance.kind # "ok" THEN instance
        ELSE IF networks.kind # "ok" THEN networks
        ELSE IF id = "private"
             THEN Ok([x \in {id} |-> build_parts(networks.value, "private")])
        ELSE IF id = "public"
             THEN Ok([x \in {id} |-> build_parts(networks.value, "public")])
        ELSE HTTPNotFound("Only private and public networks available")

ControllerV11_show(instance_exists, nw_info, use_ipv6, floats, id) ==
    LET instance == _get_instance(instance_exists)
        networks == get_networks_for_instance(nw_info, use_ipv6, floats)
    IN  IF instance.kind # "ok" THEN instance
        ELSE IF networks.kind # "ok" THEN networks
        ELSE LET network == build_network(networks.value, id)
             IN  IF network = <<>>
                 THEN HTTPNotFound("Instance is not a member of specified network")
                 ELSE Ok(network[1])

(***************************************************************************)
(* create_resource of ips.py: the controller and the XML serializer of a   *)
(* version.  A serializer renders the root element of its document in the  *)
(* namespace it was constructed with (xmlns).  wsgi.XMLNS_V11 is the       *)
(* version 1.1 namespace of nova.api.openstack.wsgi.                       *)
(***************************************************************************)
XML_NS_V10 == "http://docs.rackspacecloud.com/servers/api/v1.0"

XML_NS_V11 == "http://docs.openstack.org/compute/api/v1.1"

wsgi_XMLNS_V11 == XML_NS_V11

\* wsgi.XMLDictSerializer(metadata=metadata, xmlns=xmlns)
XMLDictSerializer(xmlns) == [class |-> "XMLDictSerializer", xmlns |-> xmlns]

\* IPXMLSerializer(): __init__(self, xmlns=wsgi.XMLNS_V11)
IPXMLSerializer == [class |-> "IPXMLSerializer", xmlns |-> wsgi_XMLNS_V11]

create_resource(version) ==
    LET controller     == IF version = "1.0" THEN "ControllerV10" ELSE "ControllerV11"
        xml_serializer == IF version = "1.0" THEN XMLDictSerializer(wsgi_XMLNS_V11)
                          ELSE IPXMLSerializer
    IN  Ok([controller |-> controller, xml_serializer |-> xml_serializer])

(***************************************************************************)
(* check_img_metadata_quota_limit.  metadata is None (<<>>) or a dict     *)
(* (<<d>>); allowed is what quota.allowed_metadata_items answers when it   *)
(* is asked, and quota_calls lists the numbers it was asked with.          *)
(***************************************************************************)
HTTPRequestEntityTooLarge(explanation, headers) ==
    [kind |-> "HTTPRequestEntityTooLarge",
     value |-> [code |-> 413, explanation |-> explanation, headers |-> headers]]

\* the check with `<=` for `<`
check_img_metadata_quota_limit_AtLimit(metadata, allowed) ==
    IF metadata = <<>> THEN Ok("None") @@ [quota_calls |-> <<>>]
    ELSE LET num_metadata   == Cardinality(DOMAIN metadata[1])
             quota_metadata == allowed
         IN  IF quota_metadata <= num_metadata
             THEN HTTPRequestEntityTooLarge("Image metadata limit exceeded",
                                            [x \in {"Retry-After"} |-> 0])
                  @@ [quota_calls |-> <<num_metadata>>]
             ELSE Ok("None") @@ [quota_calls |-> <<num_metadata>>]

check_img_metadata_quota_limit(metadata, allowed) ==
    IF metadata = <<>> THEN Ok("None") @@ [quota_calls |-> <<>>]
    ELSE LET num_metadata   == Cardinality(DOMAIN metadata[1])
             quota_metadata == allowed
         IN  IF quota_metadata < num_metadata
             THEN HTTPRequestEntityTooLarge("Image metadata limit exceeded",
                                            [x \in {"Retry-After"} |-> 0])
                  @@ [quota_calls |-> <<num_metadata>>]
             ELSE Ok("None") @@ [quota_calls |-> <<num_metadata>>]

(***************************************************************************)
(* MetadataXMLSerializer and MetadataXMLDeserializer.  A text is a         *)
(* sequence of characters.  An XML document is the sequence of its tokens: *)
(* start tags (with their attributes), character data and end tags, with  *)
(* the markup characters of attribute values and character data escaped    *)
(* as lxml writes them and read back as minidom reads them.                *)
(***************************************************************************)
\* The characters outside ASCII; U+00E9 is the letter e with an acute accent.
NonAsciiChars == {"U+00E9"}

\* str(key) of a unicode text: the ascii codec refuses any other character
str(text) ==
    IF \E i \in 1..Len(text) : text[i] \in NonAsciiChars
    THEN Raise("UnicodeEncodeError", <<"'ascii' codec can't encode character">>)
    ELSE Ok(text)

\* How a character is written in a document.
EscapeChar(c) ==
    IF c = "&" THEN <<"&", "a", "m", "p", ";">>
    ELSE IF c = "<" THEN <<"&", "l", "t", ";">>
    ELSE IF c = ">" THEN <<"&", "g", "t", ";">>
    ELSE IF c = "\"" THEN <<"&", "q", "u", "o", "t", ";">>
    ELSE <<c>>

RECURSIVE Escape(_)
Escape(text) ==
    IF text = <<>> THEN <<>> ELSE EscapeChar(Head(text)) \o Escape(Tail(text))

\* How written characters are read back: each entity is one character.
RECURSIVE Unescape(_)
Unescape(data) ==
    IF data = <<>> THEN <<>>
    ELSE IF Head(data) # "&" THEN <<Head(data)>> \o Unescape(Tail(data))
    ELSE LET semi == FindAny(data, {";"}, 1)
             name == SubSeq(data, 2, semi - 1)
             char == IF name = <<"a", "m", "p">> THEN "&"
                     ELSE IF name = <<"l", "t">> THEN "<"
                     ELSE IF name = <<"g", "t">> THEN ">"
                     ELSE "\""
         IN  <<char>> \o Unescape(From(data, semi + 1))

\* etree.Element(tag, nsmap=self.NSMAP) / etree.SubElement(parent, tag)
Element(tag, nsmap) ==
    [tag |-> tag, nsmap |-> nsmap, attrib |-> EmptyDict, text |-> <<>>,
     children |-> <<>>]

\* elem.set('key', str(key)); elem.text = value
SetKeyAndText(elem, key, value) ==
    IF str(key).kind # "ok" THEN str(key)
    ELSE Ok([elem EXCEPT !.attrib = DictPut(elem.attrib, "key", str(key).value),
                         !.text = value])

\* MetadataXMLSerializer.populate_metadata, items being meta_dict.items()
RECURSIVE populate_metadata(_, _)
populate_metadata(metadata_elem, items) ==
    IF items = <<>> THEN Ok(metadata_elem)
    ELSE LET elem == SetKeyAndText(Element("meta", ""), Head(items)[1], Head(items)[2])
         IN  IF elem.kind # "ok" THEN elem
             ELSE populate_metadata(
                      [metadata_elem EXCEPT !.children = @ \o <<elem.value>>],
                      Tail(items))

\* MetadataXMLSerializer._populate_meta_item
_populate_meta_item(meta_elem, items) ==
    IF items = <<>> THEN Raise("IndexError", <<"list index out of range">>)
    ELSE SetKeyAndText(meta_elem, Head(items)[1], Head(items)[2])

\* The tokens of an element: its start tag, its text, its children, its end tag.
RECURSIVE ElementTokens(_)
RECURSIVE ChildrenTokens(_)
ChildrenTokens(children) ==
    IF children = <<>> THEN <<>>
    ELSE ElementTokens(Head(children)) \o ChildrenTokens(Tail(children))

ElementTokens(elem) ==
    <<[t |-> "start", name |-> elem.tag, xmlns |-> elem.nsmap,
       attrs |-> [a \in DOMAIN elem.attrib |-> Escape(elem.attrib[a])],
       data |-> <<>>]>>
    \o (IF elem.text = <<>> THEN <<>>
        ELSE <<[t |-> "data", name |-> "", xmlns |-> "", attrs |-> EmptyDict,
                data |-> Escape(elem.text)]>>)
    \o ChildrenTokens(elem.children)
    \o <<[t |-> "end", name |-> elem.tag, xmlns |-> "", attrs |-> EmptyDict,
          data |-> <<>>]>>

\* XMLDictSerializer._to_xml
_to_xml(root) == ElementTokens(root)

\* MetadataXMLSerializer.index / create / update_all
SerializeMetadata(items) ==
    LET metadata == populate_metadata(Element("metadata", XML_NS_V11), items)
    IN  IF metadata.kind # "ok" THEN metadata ELSE Ok(_to_xml(metadata.value))

\* MetadataXMLSerializer.show / update
SerializeMeta(items) ==
    LET meta == _populate_meta_item(Element("meta", XML_NS_V11), items)
    IN  IF meta.kind # "ok" THEN meta ELSE Ok(_to_xml(meta.value))

MetadataXMLSerializer(method, items) ==
    IF method \in {"index", "create", "update_all"} THEN SerializeMetadata(items)
    ELSE SerializeMeta(items)

\* minidom: the sibling nodes that start at token i, up to an end tag or the
\* end of the document, and the position they stop at.
RECURSIVE ParseNodes(_, _)
ParseNodes(tokens, i) ==
    IF i > Len(tokens) \/ tokens[i].t = "end" THEN [nodes |-> <<>>, next |-> i]
    ELSE IF tokens[i].t = "data"
    THEN LET rest == ParseNodes(tokens, i + 1)
         IN  [nodes |-> <<[nodeType |-> "TEXT_NODE", nodeName |-> "#text",
                           attributes |-> EmptyDict,
                           nodeValue |-> Unescape(tokens[i].data),
                           childNodes |-> <<>>]>> \o rest.nodes,
              next |-> rest.next]
    ELSE LET kids == ParseNodes(tokens, i + 1)
             rest == ParseNodes(tokens, kids.next + 1)
         IN  [nodes |-> <<[nodeType |-> "ELEMENT_NODE", nodeName |-> tokens[i].name,
                           attributes |-> [a \in DOMAIN tokens[i].attrs |->
                                              Unescape(tokens[i].attrs[a])],
                           nodeValue |-> <<>>,
                           childNodes |-> kids.nodes]>> \o rest.nodes,
              next |-> rest.next]

\* minidom.parseString: the document node
parseString(datastring) ==
    [nodeType |-> "DOCUMENT_NODE", nodeName |-> "#document",
     attributes |-> EmptyDict, nodeValue |-> <<>>,
     childNodes |-> ParseNodes(datastring, 1).nodes]

\* XMLDeserializer.find_children_named
RECURSIVE ChildrenNamed(_, _)
ChildrenNamed(nodes, name) ==
    IF nodes = <<>> THEN <<>>
    ELSE (IF Head(nodes).nodeName = name THEN <<Head(nodes)>> ELSE <<>>)
         \o ChildrenNamed(Tail(nodes), name)

find_children_named(parent, name) == ChildrenNamed(parent.childNodes, name)

\* XMLDeserializer.find_first_child_named: None is <<>>, a node n is <<n>>
find_first_child_named(parent, name) ==
    IF find_children_named(parent, name) = <<>> THEN <<>>
    ELSE <<Head(find_children_named(parent, name))>>

\* XMLDeserializer.extract_text
extract_text(node) ==
    IF Len(node.childNodes) = 1 /\ node.childNodes[1].nodeType = "TEXT_NODE"
    THEN node.childNodes[1].nodeValue
    ELSE <<>>

\* meta_node.getAttribute("key")
getAttribute(node, name) == DictGet(node.attributes, name, <<>>)

\* the loop of extract_metadata over the meta nodes
RECURSIVE MetaLoop(_, _)
MetaLoop(meta_nodes, metadata) ==
    IF meta_nodes = <<>> THEN metadata
    ELSE MetaLoop(Tail(meta_nodes),
                  DictPut(metadata, getAttribute(Head(meta_nodes), "key"),
                          extract_text(Head(meta_nodes))))

\* MetadataXMLDeserializer.extract_metadata, metadata_node being None or a node
extract_metadata(metadata_node) ==
    IF metadata_node = <<>> THEN EmptyDict
    ELSE MetaLoop(find_children_named(metadata_node[1], "meta"), EmptyDict)

\* MetadataXMLDeserializer._extract_metadata_container
_extract_metadata_container(datastring) ==
    LET dom           == parseString(datastring)
        metadata_node == find_first_child_named(dom, "metadata")
    IN  Ok([body |-> [metadata |-> extract_metadata(metadata_node)]])

\* MetadataXMLDeserializer.create / update_all / update
MetadataXMLDeserializer(method, datastring) ==
    IF method \in {"create", "update_all"}
    THEN _extract_metadata_container(datastring)
    ELSE Ok([body |-> [meta |-> extract_metadata(<<parseString(datastring)>>)]])

(***************************************************************************)
(* The admin actions of contrib/admin_actions.py.  compute_calls lists the *)
(* calls made to the compute API; compute_raises says whether the compute  *)
(* API raises when it is called.  extensions.admin_only lets the handler   *)
(* run only when FLAGS.allow_admin_api is set and answers 404 otherwise.   *)
(***************************************************************************)
\* Admin_actions.get_actions: the handler registered for each action name
get_actions ==
    [action \in {"pause", "unpause", "suspend", "resume", "migrate",
                 "resetNetwork", "injectNetworkInfo", "lock", "unlock"} |->
        IF action = "resetNetwork" THEN "_reset_network"
        ELSE IF action = "injectNetworkInfo" THEN "_inject_network_info"
        ELSE IF action = "pause" THEN "_pause"
        ELSE IF action = "unpause" THEN "_unpause"
        ELSE IF action = "suspend" THEN "_suspend"
        ELSE IF action = "resume" THEN "_resume"
        ELSE IF action = "migrate" THEN "_migrate"
        ELSE IF action = "lock" THEN "_lock"
        ELSE "_unlock"]

\* every handler calling the compute method of its own name
ComputeMethod_OwnName(handler) ==
    IF handler = "_pause" THEN "pause"
    ELSE IF handler = "_unpause" THEN "unpause"
    ELSE IF handler = "_suspend" THEN "suspend"
    ELSE IF handler = "_resume" THEN "resume"
    ELSE IF handler = "_migrate" THEN "migrate"
    ELSE IF handler = "_reset_network" THEN "reset_network"
    ELSE IF handler = "_inject_network_info" THEN "inject_network_info"
    ELSE IF handler = "_lock" THEN "lock"
    ELSE "unlock"

\* self.compute_api.<method>(context, id) in the body of each handler
ComputeMethod(handler) ==
    IF handler = "_pause" THEN "pause"
    ELSE IF handler = "_unpause" THEN "unpause"
    ELSE IF handler = "_suspend" THEN "suspend"
    ELSE IF handler = "_resume" THEN "resume"
    ELSE IF handler = "_migrate" THEN "resize"
    ELSE IF handler = "_reset_network" THEN "reset_network"
    ELSE IF handler = "_inject_network_info" THEN "inject_network_info"
    ELSE IF handler = "_lock" THEN "lock"
    ELSE "unlock"

\* the exception a handler raises when the compute call raised
HandlerError(handler) ==
    IF handler = "_migrate" THEN [kind |-> "HTTPBadRequest", status_int |-> 400]
    ELSE [kind |-> "HTTPUnprocessableEntity", status_int |-> 422]

\* The body of a handler: the compute call, then the 202 response or the
\* handler's error.
HandlerBody(handler, compute_raises, id) ==
    (IF compute_raises THEN HandlerError(handler)
     ELSE [kind |-> "ok", status_int |-> 202])
    @@ [compute_calls |-> <<[method |-> ComputeMethod(handler), id |-> id]>>]

\* @extensions.admin_only
admin_only(allow_admin_api, handler, compute_raises, id) ==
    IF allow_admin_api THEN HandlerBody(handler, compute_raises, id)
    ELSE [kind |-> "HTTPNotFound", status_int |-> 404, compute_calls |-> <<>>]

\* POST servers/<id>/action with the body {action: None}
AdminAction(action, allow_admin_api, compute_raises, id) ==
    admin_only(allow_admin_api, get_actions[action], compute_raises, id)

(***************************************************************************)
(* The inputs the calls are made with.                                     *)
(***************************************************************************)
MaxItems == 3

MaxLimit == 3

MaxSegments == 3

BoundedSeq(S, n) == UNION {[1..k -> S] : k \in 0..n}

Reverse(s) == [i \in 1..Len(s) |-> s[Len(s) + 1 - i]]

\* Orders in which a Python 2 dict may yield the keys of _STATE_MAP: the
\* language leaves the order to the hash table.
DictOrders == {DeclaredStates, Reverse(DeclaredStates)}

VmStateInputs == Range(DeclaredStates) \cup {"SHUTOFF", "None"}

TaskStateInputs ==
    {"default", "REBOOTING", "UPDATING_PASSWORD", "RESIZE_VERIFY", "SPAWNING", "None"}

StatusStrings ==
    {S_ACTIVE, S_BUILD, S_REBUILD, S_STOPPED, S_MIGRATING, S_RESIZE, S_PAUSED,
     S_SUSPENDED, S_RESCUE, S_ERROR, S_DELETED, S_VERIFY_RESIZE, S_PASSWORD,
     S_REBOOT, S_UNKNOWN_STATE}

StatusInputs ==
    StatusStrings \cup {Lower(s) : s \in StatusStrings}
    \cup {<<"D", "e", "l", "e", "t", "e", "d">>, <<"d", "E", "L", "E", "T", "E", "D">>,
          <<"B", "O", "G", "U", "S">>, <<>>}

ItemIds == {0, 1, 2}

ItemLists == BoundedSeq([id : ItemIds], MaxItems)

RawTexts ==
    {<<"0">>, <<"1">>, <<"2">>, <<"1", "0">>, <<"-", "1">>, <<"-", "0">>,
     <<" ", "1">>, <<"a", "b", "c">>, <<>>, <<"1", ".", "5">>}

Requests(names) == UNION {[dom -> RawTexts] : dom \in SUBSET names}

Prefixes == {<<>>, <<"h", "t", "t", "p", ":", "/", "/", "h">>}

Segments ==
    {<<"v", "1", ".", "1">>, <<"v", "1", "2", ".", "3", "0">>, <<"v", "1", ".">>,
     <<"v", "1", ".", "1", "x">>, <<"1", "2", "3">>, <<>>}

Queries == {<<>>, <<"a", "=", "/", "v", "1", ".", "1", "/">>}

Fragments == {<<>>, <<"f">>}

\* The text of a path: each segment after a '/'.
RECURSIVE PathText(_)
PathText(segs) ==
    IF segs = <<>> THEN <<>> ELSE <<"/">> \o Head(segs) \o PathText(Tail(segs))

\* The text of an href from its parts.
HrefText(prefix, segs, query, fragment) ==
    prefix \o PathText(segs)
    \o (IF query = <<>> THEN <<>> ELSE <<"?">> \o query)
    \o (IF fragment = <<>> THEN <<>> ELSE <<"#">> \o fragment)

\* The hosts, with one that reads like a version segment.
HostPrefixes ==
    Prefixes \cup {<<"h", "t", "t", "p", ":", "/", "/", "v", "9", ".", "9">>}

\* The fragments, with one that reads like a version segment.
VersionFragments == Fragments \cup {<<"/", "v", "2", ".", "0">>}

MaxNetworks == 2

\* {'ip': ip} and a dict without the key 'ip'
IpDict(ip) == [keys |-> {"ip"}, ip |-> ip]

NoIpDict == [keys |-> {"gateway"}, ip |-> ""]

\* A dict of network information with the given keys.
Info(keys, label, isNone, ips, ip6s) ==
    [keys |-> keys, label |-> label,
     ips |-> [isNone |-> isNone, items |-> ips], ip6s |-> ip6s]

\* The infos get_instance_nw_info hands over: well formed ones (two of them
\* under the same label, one without addresses), the empty dict, and ones
\* that lack a key or hold None.
Infos ==
    {Info({"label", "ips"}, "public", FALSE, <<IpDict("10.0.0.1")>>, <<>>),
     Info({"label", "ips", "ip6s"}, "private", FALSE,
          <<IpDict("10.0.0.2"), IpDict("10.0.0.3")>>, <<IpDict("2001::1")>>),
     Info({"label", "ips", "ip6s"}, "public", FALSE,
          <<IpDict("10.0.0.3")>>, <<IpDict("2001::2")>>),
     Info({"label", "ips"}, "private", FALSE, <<>>, <<>>),
     Info({}, "", FALSE, <<>>, <<>>),
     Info({"label", "gateway"}, "private", FALSE, <<>>, <<>>),
     Info({"label", "ips"}, "public", FALSE,
          <<IpDict("10.0.0.1"), NoIpDict>>, <<>>),
     Info({"ips"}, "", FALSE, <<IpDict("10.0.0.1")>>, <<>>),
     Info({"label", "ips"}, "private", TRUE, <<>>, <<>>),
     Info({"label", "ips", "ip6s"}, "private", FALSE,
          <<IpDict("10.0.0.2")>>, <<NoIpDict>>)}

\* What get_floating_ips_by_fixed_address answers: nothing at all, or one
\* floating address for 10.0.0.1 and two for 10.0.0.2.
FloatingIps ==
    {EmptyDict,
     [ip \in {"10.0.0.1", "10.0.0.2"} |->
        IF ip = "10.0.0.1" THEN <<"1.2.3.4">> ELSE <<"1.2.3.5", "1.2.3.6">>]}

ApiVersions == {"1.0", "1.1"}

\* The ids a single network is asked for by.
NetworkIds == {"public", "private", "dmz"}

MaxQuota == 3

MetadataKeys == {"k1", "k2", "k3"}

\* The metadata of a request: None, or a dict of zero to three items.
MetadataInputs ==
    {<<>>} \cup {<<[k \in K |-> "v"]>> : K \in SUBSET MetadataKeys}

MaxMetadata == 2

\* Keys and values of metadata: plain ones, ones with markup characters, the
\* empty value, and ones with a character outside ASCII.
KeyTexts == {<<"a">>, <<"b", "&", "\"">>, <<"U+00E9">>}

ValueTexts == {<<>>, <<"v">>, <<"<", "&", ">">>, <<"U+00E9">>}

\* meta_dict.items(): the (key, value) pairs of a dict, in any order.
MetadataItems ==
    {items \in BoundedSeq(KeyTexts \X ValueTexts, MaxMetadata) :
        \A i, j \in 1..Len(items) : i # j => items[i][1] # items[j][1]}

SerializerMethods == {"index", "create", "update_all", "show", "update"}

DeserializerMethods == {"create", "update_all", "update"}

\* The documents a request may carry: the ones the serializer writes.
MetadataDocuments ==
    {MetadataXMLSerializer(method, items).value :
        <<method, items>> \in
            {p \in SerializerMethods \X MetadataItems :
                MetadataXMLSerializer(p[1], p[2]).kind = "ok"}}

(***************************************************************************)
(* The calls.                                                              *)
(***************************************************************************)
\* The default arguments `max_limit=FLAGS.osapi_max_limit` of limited and
\* limited_by_marker, evaluated once, when the def statements are executed.
LoadDefaults(flags) ==
    [limited |-> flags.osapi_max_limit, limited_by_marker |-> flags.osapi_max_limit]

Init ==
    /\ dictOrder \in DictOrders
    /\ FLAGS = [osapi_max_limit |-> MaxLimit, use_ipv6 |-> FALSE]
    /\ defaults = LoadDefaults(FLAGS)
    /\ client = <<>>
    /\ op = "idle"
    /\ args = <<>>
    /\ result = <<>>

CallStatusFromState ==
    /\ op = "idle"
    /\ \E vm_state \in VmStateInputs, task_state \in TaskStateInputs :
        /\ op' = "status_from_state"
        /\ args' = [vm_state |-> vm_state, task_state |-> task_state]
        /\ result' = Ok(status_from_state(vm_state, task_state))
        /\ UNCHANGED <<dictOrder, FLAGS, defaults, client>>

CallVmStateFromStatus ==
    /\ op = "idle"
    /\ \E status \in StatusInputs :
        /\ op' = "vm_state_from_status"
        /\ args' = [status |-> status]
        /\ result' = vm_state_from_status(status, dictOrder)
        /\ UNCHANGED <<dictOrder, FLAGS, defaults, client>>

CallGetPaginationParams ==
    /\ op = "idle"
    /\ \E GET \in Requests({"marker", "limit"}) :
        /\ op' = "get_pagination_params"
        /\ args' = [GET |-> GET]
        /\ result' = get_pagination_params(GET)
        /\ UNCHANGED <<dictOrder, FLAGS, defaults, client>>

CallLimited ==
    /\ op = "idle"
    /\ \E items \in ItemLists, GET \in Requests({"offset", "limit"}),
       max_limit \in 0..MaxLimit :
        /\ op' = "limited"
        /\ args' = [items |-> items, GET |-> GET, max_limit |-> max_limit]
        /\ result' = limited(items, GET, max_limit)
        /\ UNCHANGED <<dictOrder, FLAGS, defaults, client>>

CallLimitedByMarker ==
    /\ op = "idle"
    /\ \E items \in ItemLists, GET \in Requests({"marker", "limit"}),
       max_limit \in 0..MaxLimit :
        /\ op' = "limited_by_marker"
        /\ args' = [items |-> items, GET |-> GET, max_limit |-> max_limit]
        /\ result' = limited_by_marker(items, GET, max_limit)
        /\ UNCHANGED <<dictOrder, FLAGS, defaults, client>>

CallRemoveVersionFromHref ==
    /\ op = "idle"
    /\ \E prefix \in Prefixes, segs \in BoundedSeq(Segments, MaxSegments),
       query \in Queries, fragment \in Fragments :
        /\ op' = "remove_version_from_href"
        /\ args' = [prefix |-> prefix, segs |-> segs, query |-> query,
                    fragment |-> fragment,
                    href |-> HrefText(prefix, segs, query, fragment)]
        /\ result' = remove_version_from_href(HrefText(prefix, segs, query, fragment))
        /\ UNCHANGED <<dictOrder, FLAGS, defaults, client>>

CallGetVersionFromHref ==
    /\ op = "idle"
    /\ \E prefix \in HostPrefixes, segs \in BoundedSeq(Segments, MaxSegments),
       query \in Queries, fragment \in VersionFragments :
        /\ op' = "get_version_from_href"
        /\ args' = [prefix |-> prefix, segs |-> segs, query |-> query,
                    fragment |-> fragment,
                    href |-> HrefText(prefix, segs, query, fragment)]
        /\ result' = get_version_from_href(HrefText(prefix, segs, query, fragment))
        /\ UNCHANGED <<dictOrder, FLAGS, defaults, client>>

CallGetIdFromHref ==
    /\ op = "idle"
    /\ \E prefix \in HostPrefixes, segs \in BoundedSeq(Segments, MaxSegments),
       query \in Queries, fragment \in VersionFragments :
        /\ op' = "get_id_from_href"
        /\ args' = [prefix |-> prefix, segs |-> segs, query |-> query,
                    fragment |-> fragment,
                    href |-> HrefText(prefix, segs, query, fragment)]
        /\ result' = get_id_from_href(HrefText(prefix, segs, query, fragment))
        /\ UNCHANGED <<dictOrder, FLAGS, defaults, client>>

CallGetNetworksForInstance ==
    /\ op = "idle"
    /\ \E nw_info \in BoundedSeq(Infos, MaxNetworks), use_ipv6 \in BOOLEAN,
       floats \in FloatingIps :
        /\ op' = "get_networks_for_instance"
        /\ args' = [nw_info |-> nw_info, use_ipv6 |-> use_ipv6, floats |-> floats]
        /\ result' = get_networks_for_instance(nw_info, use_ipv6, floats)
        /\ UNCHANGED <<dictOrder, FLAGS, defaults, client>>

CallShow ==
    /\ op = "idle"
    /\ \E version \in ApiVersions, instance_exists \in BOOLEAN,
       nw_info \in BoundedSeq(Infos, MaxNetworks), use_ipv6 \in BOOLEAN,
       floats \in FloatingIps, id \in NetworkIds :
        /\ op' = "show"
        /\ args' = [version |-> version, instance_exists |-> instance_exists,
                    nw_info |-> nw_info, use_ipv6 |-> use_ipv6,
                    floats |-> floats, id |-> id]
        /\ result' = IF version = "1.0"
                     THEN ControllerV10_show(instance_exists, nw_info, use_ipv6,
                                             floats, id)
                     ELSE ControllerV11_show(instance_exists, nw_info, use_ipv6,
                                             floats, id)
        /\ UNCHANGED <<dictOrder, FLAGS, defaults, client>>

CallCreateResource ==
    /\ op = "idle"
    /\ \E version \in ApiVersions :
        /\ op' = "create_resource"
        /\ args' = [version |-> version]
        /\ result' = create_resource(version)
        /\ UNCHANGED <<dictOrder, FLAGS, defaults, client>>

CallCheckImgMetadataQuotaLimit ==
    /\ op = "idle"
    /\ \E metadata \in MetadataInputs, allowed \in 0..MaxQuota :
        /\ op' = "check_img_metadata_quota_limit"
        /\ args' = [metadata |-> metadata, allowed |-> allowed]
        /\ result' = check_img_metadata_quota_limit(metadata, allowed)
        /\ UNCHANGED <<dictOrder, FLAGS, defaults, client>>

CallMetadataXMLSerializer ==
    /\ op = "idle"
    /\ \E method \in SerializerMethods, items \in MetadataItems :
        /\ op' = "MetadataXMLSerializer"
        /\ args' = [method |-> method, items |-> items]
        /\ result' = MetadataXMLSerializer(method, items)
        /\ UNCHANGED <<dictOrder, FLAGS, defaults, client>>

CallMetadataXMLDeserializer ==
    /\ op = "idle"
    /\ \E method \in DeserializerMethods, datastring \in MetadataDocuments :
        /\ op' = "MetadataXMLDeserializer"
        /\ args' = [method |-> method, datastring |-> datastring]
        /\ result' = MetadataXMLDeserializer(method, datastring)
        /\ UNCHANGED <<dictOrder, FLAGS, defaults, client>>

CallAdminAction ==
    /\ op = "idle"
    /\ \E action \in DOMAIN get_actions, allow_admin_api \in BOOLEAN,
       compute_raises \in BOOLEAN, id \in {"1", "2"} :
        /\ op' = "admin_action"
        /\ args' = [action |-> action, allow_admin_api |-> allow_admin_api,
                    compute_raises |-> compute_raises, id |-> id]
        /\ result' = AdminAction(action, allow_admin_api, compute_raises, id)
        /\ UNCHANGED <<dictOrder, FLAGS, defaults, client>>

\* The caller has taken the answer; the next call may be made.
Return ==
    /\ op # "idle"
    /\ op' = "idle"
    /\ args' = <<>>
    /\ result' = <<>>
    /\ UNCHANGED <<dictOrder, FLAGS, defaults, client>>

Next ==
    \/ CallStatusFromState
    \/ CallVmStateFromStatus
    \/ CallGetPaginationParams
    \/ CallLimited
    \/ CallLimitedByMarker
    \/ CallRemoveVersionFromHref
    \/ CallGetVersionFromHref
    \/ CallGetIdFromHref
    \/ CallGetNetworksForInstance
    \/ CallShow
    \/ CallCreateResource
    \/ CallCheckImgMetadataQuotaLimit
    \/ CallMetadataXMLSerializer
    \/ CallMetadataXMLDeserializer
    \/ CallAdminAction
    \/ Return

Spec == Init /\ [][Next]_vars

(***************************************************************************)
(* The flags changing between calls.  The module is loaded under some      *)
(* flags, which binds the default arguments; the flags are then set anew   *)
(* any number of times, and limited and limited_by_marker are called       *)
(* without max_limit and get_networks_for_instance is called.              *)
(***************************************************************************)
FlagValues == [osapi_max_limit : 1..MaxLimit, use_ipv6 : BOOLEAN]

\* The query parameters of the calls made under changing flags.
ConfigRequests(names) ==
    UNION {[dom -> {<<"1">>, <<"1", "0">>}] : dom \in SUBSET names}

ConfigInit ==
    /\ dictOrder = DeclaredStates
    /\ FLAGS \in FlagValues
    /\ defaults = LoadDefaults(FLAGS)
    /\ client = <<>>
    /\ op = "idle"
    /\ args = <<>>
    /\ result = <<>>

\* FLAGS.osapi_max_limit or FLAGS.use_ipv6 is set to another value.
SetFlags ==
    /\ op = "idle"
    /\ \E flags \in FlagValues :
        /\ flags # FLAGS
        /\ FLAGS' = flags
    /\ UNCHANGED <<dictOrder, defaults, client, op, args, result>>

\* limited(items, request)
CallLimitedByDefault ==
    /\ op = "idle"
    /\ \E items \in ItemLists, GET \in ConfigRequests({"offset", "limit"}) :
        /\ op' = "limited"
        /\ args' = [items |-> items, GET |-> GET]
        /\ result' = limited(items, GET, defaults.limited)
    /\ UNCHANGED <<dictOrder, FLAGS, defaults, client>>

\* limited_by_marker(items, request)
CallLimitedByMarkerByDefault ==
    /\ op = "idle"
    /\ \E items \in ItemLists, GET \in ConfigRequests({"marker", "limit"}) :
        /\ op' = "limited_by_marker"
        /\ args' = [items |-> items, GET |-> GET]
        /\ result' = limited_by_marker(items, GET, defaults.limited_by_marker)
    /\ UNCHANGED <<dictOrder, FLAGS, defaults, client>>

\* get_networks_for_instance(context, instance) reading FLAGS.use_ipv6
CallBuild ==
    /\ op = "idle"
    /\ \E nw_info \in BoundedSeq(Infos, MaxNetworks), floats \in FloatingIps :
        /\ op' = "get_networks_for_instance"
        /\ args' = [nw_info |-> nw_info, floats |-> floats]
        /\ result' = get_networks_for_instance(nw_info, FLAGS.use_ipv6, floats)
    /\ UNCHANGED <<dictOrder, FLAGS, defaults, client>>

ConfigNext ==
    \/ SetFlags
    \/ CallLimitedByDefault
    \/ CallLimitedByMarkerByDefault
    \/ CallBuild
    \/ Return

ConfigSpec == ConfigInit /\ [][ConfigNext]_vars

(***************************************************************************)
(* A client paging through a collection with limited_by_marker: the first  *)
(* request carries no marker, each later one the id of the last item of    *)
(* the page before, until a page comes back empty or the call fails.       *)
(***************************************************************************)
MaxCalls == MaxItems + 2

\* str(id): the decimal digits of a non-negative integer
RECURSIVE IntText(_)
IntText(n) ==
    IF n < 10 THEN <<DigitChars[n + 1]>>
    ELSE IntText(n \div 10) \o <<DigitChars[(n % 10) + 1]>>

\* Collections whose items have pairwise distinct ids.
DistinctItemLists ==
    {items \in ItemLists :
        \A i, j \in 1..Len(items) : i # j => items[i].id # items[j].id}

TraversalInit ==
    /\ dictOrder = DeclaredStates
    /\ FLAGS = [osapi_max_limit |-> MaxLimit, use_ipv6 |-> FALSE]
    /\ defaults = LoadDefaults(FLAGS)
    /\ client \in [items : DistinctItemLists, max_limit : 1..MaxLimit,
                   marker : {<<>>}, received : {<<>>}, calls : {0},
                   done : {FALSE}, failed : {FALSE}]
    /\ op = "idle"
    /\ args = <<>>
    /\ result = <<>>

\* The client asks for the next page.
FetchPage ==
    /\ op = "idle"
    /\ ~client.done
    /\ client.calls < MaxCalls
    /\ LET GET == IF client.marker = <<>> THEN EmptyDict
                  ELSE [name \in {"marker"} |-> IntText(client.marker[1])]
       IN  /\ op' = "limited_by_marker"
           /\ args' = [items |-> client.items, GET |-> GET,
                       max_limit |-> client.max_limit]
           /\ result' = limited_by_marker(client.items, GET, client.max_limit)
    /\ client' = [client EXCEPT !.calls = @ + 1]
    /\ UNCHANGED <<dictOrder, FLAGS, defaults>>

\* The client takes the page: it stops on an error or an empty page, and
\* otherwise keeps the items and remembers the id of the last one.
TakePage ==
    /\ op = "limited_by_marker"
    /\ client' =
          IF result.kind # "ok" THEN [client EXCEPT !.done = TRUE, !.failed = TRUE]
          ELSE IF result.value = <<>> THEN [client EXCEPT !.done = TRUE]
          ELSE [client EXCEPT !.received = @ \o result.value,
                              !.marker = <<result.value[Len(result.value)].id>>]
    /\ op' = "idle"
    /\ args' = <<>>
    /\ result' = <<>>
    /\ UNCHANGED <<dictOrder, FLAGS, defaults>>

TraversalNext ==
    \/ FetchPage
    \/ TakePage

TraversalSpec == TraversalInit /\ [][TraversalNext]_vars

(***************************************************************************)
(* What the claims speak of.                                               *)
(***************************************************************************)
IsDeclaredState(s) == s \in Range(DeclaredStates)

\* A text that reads as a decimal integer: spaces, an optional sign, at
\* least one digit, spaces.
ReadsAsInteger(text) ==
    \E i, j \in 1..Len(text) :
        /\ i <= j
        /\ \A k \in 1..(i - 1) : text[k] = " "
        /\ \A k \in (j + 1)..Len(text) : text[k] = " "
        /\ LET first == IF text[i] \in {"+", "-"} THEN i + 1 ELSE i
           IN  first <= j /\ \A k \in first..j : IsDigit(text[k])

\* A parameter of the request that is present and is not a non-negative integer.
BadParam(GET, name) ==
    name \in DOMAIN GET /\ (~ReadsAsInteger(GET[name]) \/ ParseInt(GET[name]).val < 0)

\* The integer a valid parameter stands for, dflt when it is absent.
ParamValue(GET, name, dflt) ==
    IF name \in DOMAIN GET THEN ParseInt(GET[name]).val ELSE dflt

\* w is a run of consecutive items of items, in their order.
IsWindowOf(w, items) ==
    \E i \in 0..Len(items) : \E j \in i..Len(items) : w = SubSeq(items, i + 1, j)

\* C1: status_from_state is total: for a declared state and any task it
\* returns a non-empty member of the public status set, and for a state that
\* is no key of the table it returns UNKNOWN_STATE whatever the task.
C1_StatusTotal ==
    op = "status_from_state" =>
        /\ result.kind = "ok"
        /\ IsDeclaredState(args.vm_state) =>
               result.value \in StatusStrings /\ result.value # <<>>
        /\ ~IsDeclaredState(args.vm_state) => result.value = S_UNKNOWN_STATE

C1_Witness ==
    /\ op = "status_from_state"
    /\ args.vm_state = "SHUTOFF"
    /\ args.task_state = "REBOOTING"
    /\ result.value = S_UNKNOWN_STATE

\* C2: for a declared state, the status is the one specially mapped for the
\* task under that state (ACTIVE with REBOOTING, UPDATING_PASSWORD,
\* RESIZE_VERIFY gives REBOOT, PASSWORD, VERIFY_RESIZE) and otherwise the
\* state's default status: a task mapped only under another state changes nothing.
C2_TaskOrDefault ==
    op = "status_from_state" /\ IsDeclaredState(args.vm_state) =>
        IF args.vm_state = "ACTIVE" /\ args.task_state = "REBOOTING"
        THEN result.value = S_REBOOT
        ELSE IF args.vm_state = "ACTIVE" /\ args.task_state = "UPDATING_PASSWORD"
        THEN result.value = S_PASSWORD
        ELSE IF args.vm_state = "ACTIVE" /\ args.task_state = "RESIZE_VERIFY"
        THEN result.value = S_VERIFY_RESIZE
        ELSE result.value = STATE_MAP[args.vm_state]["default"]

C2_Witness ==
    /\ op = "status_from_state"
    /\ args.vm_state = "BUILDING"
    /\ args.task_state = "REBOOTING"
    /\ result.value = S_BUILD

\* The request of a limited_by_marker call passed validation.
MarkerCallValid ==
    /\ op = "limited_by_marker"
    /\ ~BadParam(args.GET, "marker")
    /\ ~BadParam(args.GET, "limit")

\* The first position of items whose id is m, 0 when there is none.
FirstWithId(items, m) ==
    IF \E i \in 1..Len(items) : items[i].id = m
    THEN CHOOSE i \in 1..Len(items) :
             items[i].id = m /\ \A j \in 1..(i - 1) : items[j].id # m
    ELSE 0

\* The limit line 177 of limited_by_marker arrives at.
MarkerCallLimit ==
    Min(args.max_limit, ParamValue(args.GET, "limit", args.max_limit))

\* C3: a marker present in the request is never silently ignored by
\* limited_by_marker: the call fails, or the window starts right after an
\* item whose id equals the marker (the value 0 included).
C3_MarkerNeverIgnored ==
    op = "limited_by_marker" /\ "marker" \in DOMAIN args.GET =>
        \/ result.kind = "HTTPBadRequest"
        \/ /\ result.kind = "ok"
           /\ \E i \in 1..Len(args.items) :
                 /\ args.items[i].id = ParamValue(args.GET, "marker", 0)
                 /\ \E j \in i..Len(args.items) :
                        result.value = SubSeq(args.items, i + 1, j)

\* C4: when the marker matches, limited_by_marker returns the items that
\* follow the first item whose id equals the marker, up to the limit and
\* clipped to the end; without a marker the window starts at index 0.
C4_WindowAfterFirstMatch ==
    MarkerCallValid =>
        LET m     == ParamValue(args.GET, "marker", 0)
            first == FirstWithId(args.items, m)
        IN  IF "marker" \notin DOMAIN args.GET
            THEN result = Ok(PySlice(args.items, 0, MarkerCallLimit))
            ELSE first > 0 =>
                     result = Ok(PySlice(args.items, first, first + MarkerCallLimit))

\* C5: in limited_by_marker the effective limit is
\* min(max_limit, limit or max_limit): a limit that is absent, 0 or above
\* max_limit resolves to max_limit, so limit=0 does not give an empty window.
C5_MarkerLimitZeroIsMax ==
    op = "limited_by_marker" /\ result.kind = "ok" =>
        LET l     == ParamValue(args.GET, "limit", args.max_limit)
            eff   == Min(args.max_limit, IF l # 0 THEN l ELSE args.max_limit)
            start == StartIndex(args.items, DictGetOpt(
                         [n \in DOMAIN args.GET |-> ParseInt(args.GET[n]).val], "marker"))
        IN  result.value = PySlice(args.items, start, start + eff)

\* C6: for non-negative integer offset (default 0) and limit (default
\* max_limit), limited returns exactly the items at indices
\* [offset, offset + e) clipped to the collection, where e is max_limit when
\* limit is 0 and min(max_limit, limit) otherwise; an offset at or past the
\* end gives an empty window, not an error.
C6_OffsetLimitWindow ==
    op = "limited" /\ ~BadParam(args.GET, "offset") /\ ~BadParam(args.GET, "limit") =>
        LET offset == ParamValue(args.GET, "offset", 0)
            limit  == ParamValue(args.GET, "limit", args.max_limit)
            e      == IF limit = 0 THEN args.max_limit ELSE Min(args.max_limit, limit)
            n      == Len(args.items)
            count  == IF offset >= n THEN 0 ELSE Min(e, n - offset)
        IN  /\ result.kind = "ok"
            /\ Len(result.value) = count
            /\ \A k \in 1..count : result.value[k] = args.items[offset + k]

C6_Witness ==
    /\ op = "limited"
    /\ DOMAIN args.GET = {"offset", "limit"}
    /\ args.GET["limit"] = <<"0">>
    /\ args.GET["offset"] = <<"1">>
    /\ args.max_limit = 2
    /\ Len(args.items) = 3
    /\ result = Ok(SubSeq(args.items, 2, 3))

\* C7: pagination parameters are validated, never defaulted on error:
\* get_pagination_params fails exactly when a present marker or limit is not
\* an integer or is negative, limited fails exactly when a present offset or
\* limit is; a failing call returns nothing, and get_pagination_params
\* returns exactly the parameters present, with their integer values.
C7_ParamsValidated ==
    /\ op = "get_pagination_params" =>
           IF BadParam(args.GET, "marker") \/ BadParam(args.GET, "limit")
           THEN result.kind = "HTTPBadRequest"
           ELSE /\ result.kind = "ok"
                /\ DOMAIN result.value = DOMAIN args.GET
                /\ \A n \in DOMAIN args.GET :
                       result.value[n] = ParamValue(args.GET, n, 0)
    /\ op = "limited" =>
           IF BadParam(args.GET, "offset") \/ BadParam(args.GET, "limit")
           THEN result.kind = "HTTPBadRequest"
           ELSE result.kind = "ok"

C7_Witness ==
    /\ op = "get_pagination_params"
    /\ DOMAIN args.GET = {"marker", "limit"}
    /\ args.GET["marker"] = <<"1">>
    /\ args.GET["limit"] = <<"a", "b", "c">>
    /\ result.kind = "HTTPBadRequest"

\* C8: every window limited or limited_by_marker returns, for any valid
\* request and any max_limit >= 0, is a run of consecutive items of the
\* collection in their order, and is at most max_limit long.
C8_WindowContiguousAndCapped ==
    op \in {"limited", "limited_by_marker"} /\ result.kind = "ok" =>
        /\ Len(result.value) <= args.max_limit
        /\ IsWindowOf(result.value, args.items)

C8_Witness ==
    /\ op = "limited"
    /\ "limit" \in DOMAIN args.GET
    /\ args.GET["limit"] = <<"1", "0">>
    /\ args.max_limit = 2
    /\ Len(args.items) > 2
    /\ result.kind = "ok"
    /\ Len(result.value) = 2

\* C9: vm_state_from_status compares the status, ignoring case, with each
\* state's default status, visiting the states in the order the table
\* declares them, and returns the first match: for "DELETED" in any letter
\* case that is DELETED, which is declared before SOFT_DELETE.
C9_ReverseLookupDeclaredOrder ==
    op = "vm_state_from_status" =>
        /\ result = vm_state_from_status(args.status, DeclaredStates)
        /\ Lower(args.status) = Lower(S_DELETED) => result = Ok("DELETED")

\* seg is a version segment: v, digits, a dot, digits.
IsVersionSegment(seg) ==
    \E dot \in 3..(Len(seg) - 1) :
        /\ seg[1] = "v"
        /\ seg[dot] = "."
        /\ \A k \in (2..Len(seg)) \ {dot} : IsDigit(seg[k])

\* The parts an href was written from are the parts urlsplit reads: a text
\* with no scheme and host that begins with '//' is read as a host instead.
PartsAreRead ==
    args.prefix # <<>> \/ ~(Len(args.segs) >= 2 /\ Head(args.segs) = <<>>)

\* C10: remove_version_from_href removes exactly one version segment
\* /v<digits>.<digits> standing at the very start of the path and leaves
\* scheme, host, the rest of the path, the query and the fragment as they
\* were; when the path does not start with such a segment (even if one comes
\* later in the path) it raises and returns nothing.
C10_StripLeadingVersion ==
    op = "remove_version_from_href" /\ PartsAreRead =>
        IF args.segs # <<>> /\ IsVersionSegment(Head(args.segs))
        THEN /\ result = Ok(HrefText(args.prefix, Tail(args.segs), args.query,
                                     args.fragment))
             /\ args.prefix # <<>> =>
                    urlsplit(result.value) =
                        [urlsplit(args.href) EXCEPT !.path = PathText(Tail(args.segs))]
        ELSE result.kind = "ValueError"

C10_Witness ==
    /\ op = "remove_version_from_href"
    /\ args.prefix # <<>>
    /\ args.segs = <<<<"v", "1", "2", ".", "3", "0">>, <<"1", "2", "3">>,
                     <<"v", "1", ".", "1">>>>
    /\ args.query # <<>>
    /\ args.fragment # <<>>
    /\ result.kind = "ok"


\* The segments left after the leading one, as urlsplit reads them back: in an
\* href without scheme and host a remaining text that begins with '//' has
\* its next segment read as the host.
RestAsRead ==
    LET rest == Tail(args.segs)
    IN  IF args.prefix = <<>> /\ Len(rest) >= 2 /\ Head(rest) = <<>>
        THEN Tail(Tail(rest))
        ELSE rest

\* C11 (as stated): for every href on which remove_version_from_href
\* succeeds, applying it again to the returned href fails with the
\* "href does not contain version" error.
C11_SecondStripFails ==
    (op = "remove_version_from_href" /\ result.kind = "ok")
        => remove_version_from_href(result.value).kind = "ValueError"

\* C11 (amended): when remove_version_from_href succeeds, applying it again to
\* the returned href fails with the "href does not contain version" error
\* exactly when the path that remains does not itself begin with a version
\* segment; when it does, the second application succeeds (and, in an href
\* with a host, removes that segment too).
C11_SecondStripFailsUnlessVersionFollows ==
    (op = "remove_version_from_href" /\ result.kind = "ok" /\ PartsAreRead)
        => /\ args.segs # <<>>
           /\ (remove_version_from_href(result.value).kind = "ValueError")
                <=> ~(RestAsRead # <<>> /\ IsVersionSegment(Head(RestAsRead)))
           /\ (args.prefix # <<>>
               /\ remove_version_from_href(result.value).kind = "ok")
                => remove_version_from_href(result.value).value
                     = HrefText(args.prefix, Tail(Tail(args.segs)),
                                args.query, args.fragment)

\* An href with two leading version segments was stripped, and its result
\* can be stripped again.
C11_Witness ==
    /\ op = "remove_version_from_href"
    /\ result.kind = "ok"
    /\ PartsAreRead
    /\ Len(args.segs) >= 2
    /\ IsVersionSegment(args.segs[1])
    /\ IsVersionSegment(args.segs[2])
    /\ remove_version_from_href(result.value).kind = "ok"

\* The segment of the path the version is to be read from: the first version
\* segment that is followed by a '/', else a version segment that ends the
\* path, else none (<<>>).
RECURSIVE FirstVersionSegment(_)
FirstVersionSegment(segs) ==
    IF segs = <<>> THEN <<>>
    ELSE IF IsVersionSegment(Head(segs)) /\ Len(segs) >= 2 THEN Head(segs)
    ELSE IF Len(segs) >= 2 THEN FirstVersionSegment(Tail(segs))
    ELSE IF IsVersionSegment(Head(segs)) THEN Head(segs)
    ELSE <<>>

\* C12: get_version_from_href looks only at the path of the href: it returns
\* the version of the first path segment /v<digits>.<digits>/, else of a
\* segment /v<digits>.<digits> that ends the path, else "1.0"; host, query
\* and fragment never supply the version.  (The number is compared as
\* line 248 reads it from the segment.)
C12_VersionFromPathOnly ==
    (op = "get_version_from_href" /\ PartsAreRead)
        => result.value
             = IF FirstVersionSegment(args.segs) = <<>> THEN V_1_0
               ELSE FindNumber(FirstVersionSegment(args.segs), 1)

\* The number written in a matched text /v<major>.<minor> or
\* /v<major>.<minor>/ : everything between the 'v' and the end or the '/'.
WrittenVersion(text) ==
    SubSeq(text, 3, IF text[Len(text)] = "/" THEN Len(text) - 1 ELSE Len(text))

\* C13: the text get_version_from_href returns is the complete
\* "<major>.<minor>" of the version segment it matched, with every digit of
\* both numbers, whether the segment was matched inside the href or at its
\* end.
C13_CompleteVersionReturned ==
    (op = "get_version_from_href" /\ MatchedVersionText(args.href) # <<>>)
        => result.value = WrittenVersion(MatchedVersionText(args.href))

\* The last segment of the path that is not empty, <<>> when there is none.
RECURSIVE LastNonEmptySegment(_)
LastNonEmptySegment(segs) ==
    IF segs = <<>> THEN <<>>
    ELSE IF segs[Len(segs)] # <<>> THEN segs[Len(segs)]
    ELSE LastNonEmptySegment(SubSeq(segs, 1, Len(segs) - 1))

\* C14: get_id_from_href returns the last non-empty segment of the path of
\* the href, whatever the query and the fragment are; for a path that ends
\* in '/' that is the segment before the slash, not the empty text.
C14_LastNonEmptySegment ==
    (op = "get_id_from_href" /\ PartsAreRead
     /\ LastNonEmptySegment(args.segs) # <<>>)
        => result.value = LastNonEmptySegment(args.segs)

\* The positions of nw_info whose info is not empty.
NonEmptyInfos == {i \in 1..Len(args.nw_info) : args.nw_info[i].keys # {}}

\* No later non-empty info of nw_info carries the label of the i-th.
LastWithItsLabel(i) ==
    \A j \in NonEmptyInfos : j > i => args.nw_info[j].label # args.nw_info[i].label

\* The floating addresses of the fixed addresses, in the order of the fixed
\* addresses, each as a version-4 address.
RECURSIVE FloatsInOrder(_)
FloatsInOrder(fixed) ==
    IF fixed = <<>> THEN <<>>
    ELSE LET f == IF Head(fixed).ip \in DOMAIN args.floats
                  THEN args.floats[Head(fixed).ip] ELSE <<>>
         IN  [k \in 1..Len(f) |-> [addr |-> f[k], version |-> 4]]
             \o FloatsInOrder(Tail(fixed))

\* entry is what the claim says is built from info.
EntryAsClaimed(entry, info) ==
    LET fixed == info.ips.items
        six   == IF args.use_ipv6 /\ "ip6s" \in info.keys THEN info.ip6s ELSE <<>>
    IN  /\ Len(entry.ips) = Len(fixed) + Len(six)
        /\ \A k \in 1..Len(fixed) :
              entry.ips[k] = [addr |-> fixed[k].ip, version |-> 4]
        /\ \A k \in 1..Len(six) :
              entry.ips[Len(fixed) + k] = [addr |-> six[k].ip, version |-> 6]
        /\ entry.floating_ips = FloatsInOrder(fixed)

\* C15: a view returned by get_networks_for_instance has no entry for a pair
\* whose info is empty and one entry, under the info's label, for each other
\* pair; the entry's ips are the fixed addresses with version 4 in their
\* order, followed, only when IPv6 is enabled and the info has ip6s, by the
\* IPv6 addresses with version 6; its floating_ips are the floating
\* addresses the network API reports for each fixed address, in the order of
\* the fixed addresses, with version 4; with IPv6 disabled no version-6
\* address appears.  (Of several infos under one label the entry is the
\* last one's.)
C15_NetworksBuilt ==
    (op = "get_networks_for_instance" /\ result.kind = "ok")
        => /\ DOMAIN result.value = {args.nw_info[i].label : i \in NonEmptyInfos}
           /\ \A i \in NonEmptyInfos :
                 LastWithItsLabel(i)
                    => EntryAsClaimed(result.value[args.nw_info[i].label],
                                      args.nw_info[i])
           /\ ~args.use_ipv6
                 => \A label \in DOMAIN result.value :
                       \A k \in 1..Len(result.value[label].ips) :
                          result.value[label].ips[k].version # 6

\* A view of two networks was built with IPv6 enabled: it holds a version-6
\* address and floating addresses, and an empty info was passed over.
C15_Witness ==
    /\ op = "get_networks_for_instance"
    /\ result.kind = "ok"
    /\ args.use_ipv6
    /\ \E i \in 1..Len(args.nw_info) : args.nw_info[i].keys = {}
    /\ \E label \in DOMAIN result.value :
          /\ \E k \in 1..Len(result.value[label].ips) :
                result.value[label].ips[k].version = 6
          /\ Len(result.value[label].floating_ips) = 2

\* An info is malformed for a build: it lacks 'ips' or 'label', its 'ips' is
\* None, one of its fixed addresses lacks 'ip', or (the IPv6 addresses being
\* read only when IPv6 is enabled) one of its IPv6 addresses lacks 'ip'.
Malformed(info, use_ipv6) ==
    \/ "ips" \notin info.keys
    \/ "label" \notin info.keys
    \/ info.ips.isNone
    \/ \E k \in 1..Len(info.ips.items) : "ip" \notin info.ips.items[k].keys
    \/ /\ use_ipv6
       /\ "ip6s" \in info.keys
       /\ \E k \in 1..Len(info.ip6s) : "ip" \notin info.ip6s[k].keys

\* An info is malformed as written: it lacks 'ips' or 'label', its 'ips' is
\* None, or one of its addresses, fixed or IPv6, lacks 'ip'.
MalformedAsStated(info) == Malformed(info, TRUE)

\* C16 (as stated): when some non-empty info of nw_info is malformed (a
\* missing 'ips', a missing 'ip' within an address, a missing 'label', a
\* wrong-typed value), at whatever position, get_networks_for_instance fails
\* with the error; it never returns a view that leaves the malformed network
\* out.
C16_AnyMalformedInfoFails ==
    op = "get_networks_for_instance"
        => /\ (\E i \in NonEmptyInfos : MalformedAsStated(args.nw_info[i]))
                 => result.kind \in {"KeyError", "TypeError"}
           /\ result.kind = "ok"
                 => \A i \in NonEmptyInfos :
                       args.nw_info[i].label \in DOMAIN result.value

\* C16 (amended): when some non-empty info of nw_info is malformed in a part
\* the build reads (a missing 'ips', a missing 'ip' within a fixed address, a
\* missing 'label', an 'ips' that is None, or, with IPv6 enabled, a missing
\* 'ip' within an IPv6 address), at whatever position,
\* get_networks_for_instance fails with the KeyError or TypeError it causes;
\* a view that is returned has an entry for every non-empty info, so none is
\* silently left out.
C16_MalformedInfoFails ==
    op = "get_networks_for_instance"
        => /\ (\E i \in NonEmptyInfos : Malformed(args.nw_info[i], args.use_ipv6))
                 => result.kind \in {"KeyError", "TypeError"}
           /\ result.kind = "ok"
                 => \A i \in NonEmptyInfos :
                       args.nw_info[i].label \in DOMAIN result.value

\* A well-formed info was followed by a malformed one, and the build failed.
C16_Witness ==
    /\ op = "get_networks_for_instance"
    /\ Len(args.nw_info) = 2
    /\ args.nw_info[1].keys # {}
    /\ ~Malformed(args.nw_info[1], args.use_ipv6)
    /\ Malformed(args.nw_info[2], args.use_ipv6)
    /\ result.kind \in {"KeyError", "TypeError"}

\* The view get_networks_for_instance assembles for the call.
AssembledNetworks ==
    get_networks_for_instance(args.nw_info, args.use_ipv6, args.floats)

\* C17: for an instance that exists and whose networks are assembled, show
\* of the earlier API version fails with HTTPNotFound for every id other
\* than public and private and for those two returns a document keyed by
\* that id; show of the later version fails with HTTPNotFound for a label
\* that is absent from the assembled view and for a present label returns
\* the view of that network.
C17_ShowNotFoundIffNameUnavailable ==
    (op = "show" /\ args.instance_exists /\ AssembledNetworks.kind = "ok")
        => /\ (args.version = "1.0" /\ args.id \notin {"public", "private"})
                 => result.kind = "HTTPNotFound"
           /\ (args.version = "1.0" /\ args.id \in {"public", "private"})
                 => (result.kind = "ok" /\ DOMAIN result.value = {args.id})
           /\ (args.version = "1.1" /\ args.id \notin DOMAIN AssembledNetworks.value)
                 => result.kind = "HTTPNotFound"
           /\ (args.version = "1.1" /\ args.id \in DOMAIN AssembledNetworks.value)
                 => (result.kind = "ok"
                     /\ result.value = AssembledNetworks.value[args.id])

\* The later version was asked for a label that the view of two networks
\* does not hold, and answered HTTPNotFound.
C17_Witness ==
    /\ op = "show"
    /\ args.instance_exists
    /\ AssembledNetworks.kind = "ok"
    /\ args.version = "1.1"
    /\ DOMAIN AssembledNetworks.value = {"public", "private"}
    /\ args.id = "dmz"
    /\ result.kind = "HTTPNotFound"

\* C19: the XML document of the addresses resource is namespaced per
\* version: the resource created for version 1.0 renders in the v1.0
\* namespace (.../servers/api/v1.0), the resource created for version 1.1
\* in the v1.1 namespace (.../compute/api/v1.1), and the two namespaces
\* are distinct.
C19_NamespacePerVersion ==
    op = "create_resource"
        => /\ args.version = "1.0" => result.value.xml_serializer.xmlns = XML_NS_V10
           /\ args.version = "1.1" => result.value.xml_serializer.xmlns = XML_NS_V11
           /\ XML_NS_V10 # XML_NS_V11

\* C20: check_img_metadata_quota_limit fails with the 413 error carrying the
\* header Retry-After: 0 exactly when metadata is supplied and has more items
\* than quota.allowed_metadata_items allows; within the allowance it returns
\* without error, and when no metadata is supplied it returns without error
\* and without asking the quota.
C20_QuotaExceededIffOverAllowance ==
    op = "check_img_metadata_quota_limit"
        => /\ (result.kind = "HTTPRequestEntityTooLarge")
                <=> (args.metadata # <<>>
                     /\ Cardinality(DOMAIN args.metadata[1]) > args.allowed)
           /\ result.kind = "HTTPRequestEntityTooLarge"
                => (result.value.code = 413
                    /\ result.value.headers["Retry-After"] = 0)
           /\ result.kind \in {"ok", "HTTPRequestEntityTooLarge"}
           /\ args.metadata = <<>> => (result.kind = "ok" /\ result.quota_calls = <<>>)
           /\ args.metadata # <<>>
                => result.quota_calls = <<Cardinality(DOMAIN args.metadata[1])>>

\* Three items were checked against an allowance of two and refused.
C20_Witness ==
    /\ op = "check_img_metadata_quota_limit"
    /\ args.metadata # <<>>
    /\ Cardinality(DOMAIN args.metadata[1]) = 3
    /\ args.allowed = 2
    /\ result.kind = "HTTPRequestEntityTooLarge"

\* The mapping whose items are given.
MappingOf(items) ==
    [k \in {items[i][1] : i \in 1..Len(items)} |->
        (CHOOSE p \in Range(items) : p[1] = k)[2]]

\* C18: for every mapping m with text keys and text values (the empty one
\* and ones with several entries included), deserializing what the
\* serializer's index, create or update_all writes for m yields
\* {body: {metadata: m}}; for a mapping m of one entry, deserializing what
\* show or update writes yields {body: {meta: m}}.
C18_MetadataRoundTrip ==
    op = "MetadataXMLSerializer"
        => /\ args.method \in {"index", "create", "update_all"}
                => /\ result.kind = "ok"
                   /\ \A method \in {"create", "update_all"} :
                         MetadataXMLDeserializer(method, result.value)
                           = Ok([body |-> [metadata |-> MappingOf(args.items)]])
           /\ (args.method \in {"show", "update"} /\ Len(args.items) = 1)
                => /\ result.kind = "ok"
                   /\ MetadataXMLDeserializer("update", result.value)
                        = Ok([body |-> [meta |-> MappingOf(args.items)]])

\* C26: for every declared state s other than DELETED and SOFT_DELETE,
\* vm_state_from_status of the status that status_from_state gives for s
\* with the default task is s, whatever order the dict is iterated in; and
\* for a status that is no state's default (REBOOT, PASSWORD, VERIFY_RESIZE,
\* UNKNOWN_STATE) vm_state_from_status returns no state.
C26_StatusRoundTrip ==
    /\ (op = "status_from_state" /\ IsDeclaredState(args.vm_state)
        /\ args.vm_state \notin {"DELETED", "SOFT_DELETE"}
        /\ args.task_state = "default")
          => vm_state_from_status(result.value, dictOrder) = Ok(args.vm_state)
    /\ (op = "vm_state_from_status"
        /\ \E s \in {S_REBOOT, S_PASSWORD, S_VERIFY_RESIZE, S_UNKNOWN_STATE} :
              Lower(args.status) = Lower(s))
          => result.kind = "None"
    /\ op = "vm_state_from_status"
          => \A s \in Range(DeclaredStates) \ {"DELETED", "SOFT_DELETE"} :
                args.status = status_from_state(s, "default") => result = Ok(s)

\* RESCUED was mapped to RESCUE, which is looked up as RESCUED again.
C26_Witness ==
    /\ op = "status_from_state"
    /\ args.vm_state = "RESCUED"
    /\ args.task_state = "default"
    /\ result.value = S_RESCUE
    /\ vm_state_from_status(result.value, dictOrder) = Ok("RESCUED")
    /\ dictOrder = Reverse(DeclaredStates)

\* The labels of the non-empty infos of nw_info.
LabelsOfNonEmptyInfos == {args.nw_info[i].label : i \in NonEmptyInfos}

\* C22: when several non-empty infos carry one label, the view returned by
\* get_networks_for_instance has a single entry for that label, holding the
\* addresses of the last such info in input order and none merged in from
\* the earlier ones; the number of labels of the view is the number of
\* distinct labels among the non-empty infos.
C22_LastSameLabelInfoWins ==
    (op = "get_networks_for_instance" /\ result.kind = "ok")
        => /\ Cardinality(DOMAIN result.value) = Cardinality(LabelsOfNonEmptyInfos)
           /\ \A i, j \in NonEmptyInfos :
                 (i < j /\ args.nw_info[i].label = args.nw_info[j].label
                  /\ LastWithItsLabel(j))
                    => /\ args.nw_info[j].label \in DOMAIN result.value
                       /\ EntryAsClaimed(result.value[args.nw_info[j].label],
                                         args.nw_info[j])

\* Two infos labelled public with different addresses were assembled: the
\* view has the one label, with the second info's single fixed address.
C22_Witness ==
    /\ op = "get_networks_for_instance"
    /\ result.kind = "ok"
    /\ Len(args.nw_info) = 2
    /\ args.nw_info[1].label = "public"
    /\ args.nw_info[2].label = "public"
    /\ args.nw_info[1].ips.items # args.nw_info[2].ips.items
    /\ DOMAIN result.value = {"public"}
    /\ Len(result.value["public"].ips) = Len(args.nw_info[2].ips.items)
    /\ result.value["public"].ips[1].addr = args.nw_info[2].ips.items[1].ip

\* The compute call that corresponds to an action.
CorrespondingCall(action) ==
    IF action = "migrate" THEN "resize"
    ELSE IF action = "resetNetwork" THEN "reset_network"
    ELSE IF action = "injectNetworkInfo" THEN "inject_network_info"
    ELSE action

C25_StripAndParseAgree ==
    (op = "remove_version_from_href" /\ result.kind = "ok" /\ PartsAreRead)
        => get_version_from_href(args.href) = Ok(Tail(Head(args.segs)))

\* C23: the configuration is read at call time: after the flags have
\* changed, a call of limited or limited_by_marker made without max_limit
\* uses the osapi_max_limit in force at that call, and a call of
\* get_networks_for_instance uses the use_ipv6 in force at that call, not
\* the values the module was loaded under.
C23_ConfigReadAtCallTime ==
    /\ op = "limited"
          => result = limited(args.items, args.GET, FLAGS.osapi_max_limit)
    /\ op = "limited_by_marker"
          => result = limited_by_marker(args.items, args.GET, FLAGS.osapi_max_limit)
    /\ op = "get_networks_for_instance"
          => result = get_networks_for_instance(args.nw_info, FLAGS.use_ipv6,
                                                args.floats)

\* C24: on a collection whose items have pairwise distinct non-negative
\* integer ids, with max_limit >= 1, a client that calls limited_by_marker
\* first without a marker and then with the id of the last item of the page
\* before, until a page is empty, receives every item exactly once and in
\* collection order, after finitely many calls: no call fails, what it has
\* received is always the collection up to some item, each page but the
\* last brings a new item (so one call more than there are items suffices),
\* and when it stops it has received the whole collection.
C24_CursorTraversalComplete ==
    /\ ~client.failed
    /\ Len(client.received) <= Len(client.items)
    /\ client.received = SubSeq(client.items, 1, Len(client.received))
    /\ client.calls <= Len(client.items) + 1
    /\ client.done => client.received = client.items
    /\ (op = "idle" /\ ~client.done) => client.calls <= Len(client.received)
=============================================================================
